---- MODULE Spec2Model ----
(***************************************************************************)
(* Hamlet (openquake.hme): the statistics library, the GEM likelihood and  *)
(* MFD tests, and the run_tests driver, as state machines.                 *)
(*                                                                         *)
(* Real numbers are kept exact.  A rational is a reduced pair <<n, d>>,    *)
(* d > 0.  A likelihood is exp(-expneg) * coef and a log-likelihood is     *)
(* lin + ln(lnarg), with expneg, coef, lin, lnarg rationals; e being       *)
(* transcendental, two such values are equal exactly when their records    *)
(* are.  ln(0) is numpy's -inf, written lnarg = <<0, 1>>.                  *)
(***************************************************************************)
EXTENDS Integers, Sequences, FiniteSets, TLC

VARIABLES
    s_in,     \* stats: the arguments of the call
    s_call,   \* stats: the function that was called, "none" before the call
    s_ret,    \* stats: what the call returned or raised
    r_cfg,    \* run_tests: the sections and keys cfg holds
    r_pc,     \* run_tests: the statement the run is at
    r_i,      \* run_tests: the tests of the list already run
    r_log,    \* run_tests: the calls made and their returns, in order
    r_phases, \* run_tests: the phases entered, in order
    r_state,  \* run_tests: seeded, bin_gdf, pro_gdf, results
    g_cfg,    \* a test or write_outputs: the cfg it is called with
    g_rows,   \* a test or write_outputs: bin_gdf, its rows in order
    g_call,   \* a test or write_outputs: the function called, "none" before
    g_ret,    \* a test or write_outputs: what the call returned or raised
    g_files,  \* a test or write_outputs: the files written
    p_pc,     \* parallel sampling: the statement the orchestrator is at
    p_tasks,  \* parallel sampling: the part, the progress and the result of
              \* each worker
    p_arrived,\* parallel sampling: the workers in the order they returned
    p_mfds,   \* parallel sampling: the Series parallelize returned
    p_writes, \* parallel sampling: who wrote to bin_gdf, in order
    z_rng,    \* np.random: the state of the process-global generator
    z_log     \* np.random: the calls of sample_event_times_in_interval made

statsVars == <<s_in, s_call, s_ret>>
runVars == <<r_cfg, r_pc, r_i, r_log, r_phases, r_state>>
gemVars == <<g_cfg, g_rows, g_call, g_ret, g_files>>
parVars == <<p_pc, p_tasks, p_arrived, p_mfds, p_writes>>
rngVars == <<z_rng, z_log>>

vars == <<statsVars, runVars, gemVars, parVars, rngVars>>

notStats == <<runVars, gemVars, parVars, rngVars>>
notRun == <<statsVars, gemVars, parVars, rngVars>>
notGem == <<statsVars, runVars, parVars, rngVars>>
notGemPar == <<statsVars, runVars, rngVars>>
notRng == <<statsVars, runVars, gemVars, parVars>>

(***************************************************************************)
(* Bounds                                                                  *)
(***************************************************************************)
MaxEvents == 3
MaxRateNum == 4
RateDen == 2
MaxTime == 2
MaxNmvNum == 2
MaxCountsLen == 4
MaxCountVal == 3
NumBins == 3
MaxDraw == 1
MaxRDisp == 2
NumWorkers == 2
MaxCalls == 2
MaxIters == 2

(***************************************************************************)
(* Exact rationals                                                         *)
(***************************************************************************)
Abs(x) == IF x < 0 THEN -x ELSE x

RECURSIVE GCD(_, _)
GCD(a, b) == IF b = 0 THEN a ELSE GCD(b, a % b)

Frac(n, d) ==
    LET g == GCD(Abs(n), Abs(d))
        s == IF d < 0 THEN -1 ELSE 1
    IN  <<(s * n) \div g, (s * d) \div g>>

Zero == <<0, 1>>
One == <<1, 1>>
FromInt(n) == <<n, 1>>
Neg(a) == <<-a[1], a[2]>>
Add(a, b) == Frac(a[1] * b[2] + b[1] * a[2], a[2] * b[2])
Mul(a, b) == Frac(a[1] * b[1], a[2] * b[2])
Div(a, b) == Frac(a[1] * b[2], a[2] * b[1])
IsIntegral(a) == a[2] = 1
Leq(a, b) == a[1] * b[2] <= b[1] * a[2]

RECURSIVE PowNat(_, _)
PowNat(a, n) == IF n = 0 THEN One ELSE Mul(a, PowNat(a, n - 1))

\* a ** n for a > 0 and any integer n
Pow(a, n) == IF n >= 0 THEN PowNat(a, n) ELSE Div(One, PowNat(a, -n))

RECURSIVE Fact(_)
Fact(n) == IF n <= 1 THEN 1 ELSE n * Fact(n - 1)

(***************************************************************************)
(* Values and exceptions                                                   *)
(***************************************************************************)
Like(expneg, coef) == [kind |-> "value", expneg |-> expneg, coef |-> coef]
LogLike(lin, lnarg) == [kind |-> "value", lin |-> lin, lnarg |-> lnarg]
Raise(exc) == [kind |-> exc]
NoRet == [kind |-> "none"]

(***************************************************************************)
(* A component that a specification leaves out stays as it is here         *)
(***************************************************************************)
StatsIdle ==
    /\ s_in = [num_events |-> 0, rate |-> Zero, time_interval |-> 1,
               not_modeled_val |-> Zero, py |-> "float_accepted",
               dispersion |-> Zero]
    /\ s_call = "none"
    /\ s_ret = NoRet

RunIdle ==
    /\ r_cfg = [rand_seed |-> FALSE, prospective_catalog |-> FALSE,
                output |-> FALSE, report |-> FALSE, tests |-> <<>>]
    /\ r_pc = "idle"
    /\ r_i = 0
    /\ r_log = <<>>
    /\ r_phases = <<>>
    /\ r_state = [seeded |-> FALSE, bin_gdf |-> FALSE, pro_gdf |-> "unbound",
                  inputs |-> <<>>, results |-> {}]


\* np.log of a likelihood: ln(exp(-a) * c) = -a + ln(c); ln(0) = -inf
np_log(x) ==
    IF x.kind # "value" THEN x
    ELSE IF x.coef = Zero THEN LogLike(Zero, Zero)
    ELSE LogLike(Neg(x.expneg), x.coef)

\* math.factorial(n) of an int: ValueError below zero
math_factorial_int(n) ==
    IF n < 0 THEN Raise("ValueError") ELSE [kind |-> "value", v |-> Fact(n)]

\* math.factorial(x) of a float.  Up to Python 3.9 a float of integral value
\* is accepted and any other float is a ValueError; from Python 3.10 every
\* float is a TypeError.  py says which of the two the interpreter does.
math_factorial_float(x, py) ==
    IF py = "float_accepted"
    THEN IF ~IsIntegral(x) \/ x[1] < 0 THEN Raise("ValueError")
         ELSE [kind |-> "value", v |-> Fact(x[1])]
    ELSE Raise("TypeError")

GemIdle ==
    /\ g_cfg = [test |-> "none"]
    /\ g_rows = <<>>
    /\ g_call = "none"
    /\ g_ret = NoRet
    /\ g_files = {}

ParIdle ==
    /\ p_pc = "idle"
    /\ p_tasks = <<>>
    /\ p_arrived = <<>>
    /\ p_mfds = <<>>
    /\ p_writes = <<>>

RngIdle ==
    /\ z_rng = 0
    /\ z_log = <<>>

(***************************************************************************)
(* numpy.random: the process-global generator.  Its state is one of RngMod *)
(* values; every draw is a function of the state and moves the state on.   *)
(***************************************************************************)
RngMod == 4
RngStates == 0 .. (RngMod - 1)

\* the state after one draw
rng_next(state) == (5 * state + 3) % RngMod

\* np.random.seed(seed): the state is a function of the seed alone
np_random_seed(seed) == (3 * seed + 1) % RngMod

\* np.random.poisson(lam): one draw; no event can come of lam == 0
np_random_poisson(state, lam) ==
    [value |-> IF lam = Zero THEN 0 ELSE state % 3, state |-> rng_next(state)]

\* np.random.uniform(low, high, size): size draws, each low + (high - low) * u
\* with u in [0, 1) drawn from the state
RECURSIVE np_random_uniform(_, _, _, _)
np_random_uniform(state, low, high, size) ==
    IF size = 0 THEN [value |-> <<>>, state |-> state]
    ELSE LET u == Frac(state, RngMod)
             rest == np_random_uniform(rng_next(state), low, high, size - 1)
         IN  [value |-> <<Add(low, Mul(Add(high, Neg(low)), u))>>
                            \o rest.value,
              state |-> rest.state]

(***************************************************************************)
(* openquake/hme/utils/stats.py                                            *)
(***************************************************************************)
poisson_likelihood_zero_rate_swapped(num_events, not_modeled_val) ==
    IF num_events = 0 THEN Like(Zero, not_modeled_val)
    ELSE IF num_events > 0 THEN Like(Zero, One)
    ELSE Raise("ValueError")

poisson_likelihood_zero_rate(num_events, not_modeled_val) ==
    IF num_events = 0 THEN Like(Zero, One)
    ELSE IF num_events > 0 THEN Like(Zero, not_modeled_val)
    ELSE Raise("ValueError")

poisson_likelihood(num_events, rate, time_interval, not_modeled_val) ==
    IF rate = Zero
    THEN poisson_likelihood_zero_rate(num_events, not_modeled_val)
    ELSE LET rt == Mul(rate, FromInt(time_interval))
             f == math_factorial_int(num_events)
         IN  IF f.kind # "value" THEN f
             ELSE Like(rt, Div(Pow(rt, num_events), FromInt(f.v)))

\* The zero-rate branch passes rate, which is 0 there, where num_events is
\* expected; the other branch takes the factorial of rt, a float.
poisson_log_likelihood(num_events, rate, time_interval, not_modeled_val, py) ==
    IF rate = Zero
    THEN np_log(poisson_likelihood_zero_rate(rate[1], not_modeled_val))
    ELSE LET rt == Mul(rate, FromInt(time_interval))
             f == math_factorial_float(rt, py)
         IN  IF f.kind # "value" THEN f
             ELSE LogLike(Neg(rt), Div(Pow(rt, num_events), FromInt(f.v)))

\* sample_event_times_in_interval without its first two lines: rand_seed is
\* not looked at
sample_event_times_in_interval_unseeded(state, annual_occurrence_rate, interval_length, t0, rand_seed) ==
    LET n_events == np_random_poisson(state,
                        Mul(annual_occurrence_rate, interval_length))
        event_times == np_random_uniform(n_events.state, t0,
                            Add(t0, interval_length), n_events.value)
    IN  [ret |-> event_times.value, n_events |-> n_events.value,
         state |-> event_times.state]

\* what sample_event_times_in_interval returns, the count it drew and the
\* state it leaves the generator in, state being the state of the generator
\* at the call; rand_seed is <<>> for None and <<seed>> otherwise
sample_event_times_in_interval(state, annual_occurrence_rate, interval_length, t0, rand_seed) ==
    LET seeded == IF rand_seed # <<>> THEN np_random_seed(rand_seed[1])
                  ELSE state
        n_events == np_random_poisson(seeded,
                        Mul(annual_occurrence_rate, interval_length))
        event_times == np_random_uniform(n_events.state, t0,
                            Add(t0, interval_length), n_events.value)
    IN  [ret |-> event_times.value, n_events |-> n_events.value,
         state |-> event_times.state]

\* scipy.special.gamma at a positive integer k: (k - 1)!
gamma(k) == Fact(k - 1)

\* scipy.special.factorial at an integer n >= 0
factorial(n) == Fact(n)

\* negative_binomial_distribution without its first two lines: 1 / dispersion
\* is evaluated and dispersion == 0 is a ZeroDivisionError
negative_binomial_distribution_undispersed(num_events, mean_rate, dispersion) ==
    IF dispersion = Zero
    THEN Raise("ZeroDivisionError")
    ELSE LET r_disp == Div(One, dispersion)[1]
             term_1 == Frac(gamma(num_events + r_disp),
                            gamma(r_disp) * factorial(num_events))
             term_2 == Pow(Div(Mul(mean_rate, dispersion),
                               Add(One, Mul(mean_rate, dispersion))),
                           num_events)
             term_3 == Pow(Add(One, Mul(mean_rate, dispersion)), r_disp)
         IN  Like(Zero, Mul(Mul(term_1, term_2), term_3))

\* dispersion is 0 or 1/k, k a positive integer, so that r_disp is k and the
\* gamma function is a factorial; num_events >= 0 when dispersion is not 0
negative_binomial_distribution(num_events, mean_rate, dispersion) ==
    IF dispersion = Zero
    THEN poisson_likelihood(num_events, mean_rate, 1, Zero)
    ELSE LET r_disp == Div(One, dispersion)[1]
             term_1 == Frac(gamma(num_events + r_disp),
                            gamma(r_disp) * factorial(num_events))
             term_2 == Pow(Div(Mul(mean_rate, dispersion),
                               Add(One, Mul(mean_rate, dispersion))),
                           num_events)
             term_3 == Pow(Add(One, Mul(mean_rate, dispersion)), r_disp)
         IN  Like(Zero, Mul(Mul(term_1, term_2), term_3))

(***************************************************************************)
(* openquake/hme/model_test_frameworks/gem/gem_test_functions.py           *)
(***************************************************************************)
Values(q) == {q[i] : i \in DOMAIN q}

Min(S) == CHOOSE x \in S : \A y \in S : x <= y

RECURSIVE Sorted(_)
Sorted(S) == IF S = {} THEN <<>> ELSE <<Min(S)>> \o Sorted(S \ {Min(S)})

RECURSIVE sum(_)
sum(q) == IF q = <<>> THEN 0 ELSE Head(q) + sum(Tail(q))

\* np.unique(eq_counts, return_counts=True): the sorted distinct values and
\* how often each occurs
np_unique(q) ==
    LET u == Sorted(Values(q))
    IN  [values |-> u,
         counts |-> [i \in DOMAIN u |->
                        Cardinality({j \in DOMAIN q : q[j] = u[i]})]]

get_mfd_freq_counts_per_value(eq_counts) ==
    LET n_eqs == np_unique(eq_counts).values
        n_occurrences == np_unique(eq_counts).counts
    IN  [n_eq \in Values(n_eqs) |->
            LET i == CHOOSE i \in DOMAIN n_eqs : n_eqs[i] = n_eq
            IN  Frac(n_occurrences[i], Len(n_occurrences))]

get_mfd_freq_counts(eq_counts) ==
    LET n_eqs == np_unique(eq_counts).values
        n_occurrences == np_unique(eq_counts).counts
    IN  [n_eq \in Values(n_eqs) |->
            LET i == CHOOSE i \in DOMAIN n_eqs : n_eqs[i] = n_eq
            IN  Frac(n_occurrences[i], sum(n_occurrences))]

(***************************************************************************)
(* SpacemagBin (openquake.hme.utils), from its description: the magnitude  *)
(* bin centers, the occurrence rates of the ruptures of each center and    *)
(* the number of observed earthquakes of each center                       *)
(***************************************************************************)
MagBinCenters == <<6, 7>>
Centers == Values(MagBinCenters)

SpacemagBin(ruptures, observed) ==
    [mag_bin_centers |-> MagBinCenters, ruptures |-> ruptures,
     observed_earthquakes |-> observed]

RECURSIVE SumRates(_)
SumRates(q) == IF q = <<>> THEN Zero ELSE Add(Head(q), SumRates(Tail(q)))

\* np.cumsum(v[::-1])[::-1] over the centers: the total of the center and of
\* those above it
RECURSIVE SumFrom(_, _)
SumFrom(mfd, i) ==
    IF i > Len(MagBinCenters) THEN Zero
    ELSE Add(mfd[MagBinCenters[i]], SumFrom(mfd, i + 1))

ReverseCumSum(mfd) ==
    [c \in Centers |->
        SumFrom(mfd, CHOOSE i \in DOMAIN MagBinCenters : MagBinCenters[i] = c)]

get_rupture_mfd(bin, cumulative) ==
    LET mfd == [c \in Centers |-> SumRates(bin.ruptures[c])]
    IN  IF cumulative THEN ReverseCumSum(mfd) ELSE mfd

get_empirical_mfd(bin, t_yrs, cumulative) ==
    LET mfd == [c \in Centers |->
                    Div(FromInt(bin.observed_earthquakes[c]), FromInt(t_yrs))]
    IN  IF cumulative THEN ReverseCumSum(mfd) ELSE mfd

\* get_rupture_sample_mfd(interval_length, normalize=False, cumulative=False):
\* for each center the sum of one Poisson draw per rupture; every outcome
\* with at most MaxDraw events per rupture
MostRuptures(bin) ==
    CHOOSE n \in {Len(bin.ruptures[c]) : c \in Centers} :
        \A c \in Centers : Len(bin.ruptures[c]) <= n

get_rupture_sample_mfd(bin) ==
    {m \in [Centers -> 0 .. (MaxDraw * MostRuptures(bin))] :
        \A c \in Centers : m[c] <= MaxDraw * Len(bin.ruptures[c])}

\* the rows of bin_gdf whose bin holds ruptures, in the order of bin_gdf
get_source_bins(rows) ==
    SelectSeq(rows, LAMBDA row :
        \E c \in Centers : row.SpacemagBin.ruptures[c] # <<>>)

\* gem_stats.calc_mfd_log_likelihood_independent: the score of one bin, a
\* function of the bin's observed earthquakes, of the MFD handed to it and of
\* the test's parameters; kept as the application itself
calc_mfd_log_likelihood_independent(obs_eqs, mfd_dict, time_interval, not_modeled_val, likelihood_method) ==
    [kind |-> "log_like", obs_eqs |-> obs_eqs, mfd_dict |-> mfd_dict,
     time_interval |-> time_interval, not_modeled_val |-> not_modeled_val,
     likelihood_method |-> likelihood_method]

(***************************************************************************)
(* gem_test_functions.py: the stochastic MFD of a bin                      *)
(***************************************************************************)
\* every mapping center -> list of n_iters counts the sampling can give
get_stochastic_mfd_counts(bin, n_iters) ==
    {m \in [Centers -> [1 .. n_iters -> 0 .. (MaxDraw * MostRuptures(bin))]] :
        \A i \in 1 .. n_iters :
            [c \in Centers |-> m[c][i]] \in get_rupture_sample_mfd(bin)}

\* the loop of get_stochastic_mfd_counts with each count put before those
\* already collected
RECURSIVE mfd_counts_after_prepending(_, _, _)
mfd_counts_after_prepending(spacemag_bin, samples, i) ==
    IF i = 0 THEN [bc \in Values(spacemag_bin.mag_bin_centers) |-> <<>>]
    ELSE LET mfd_counts == mfd_counts_after_prepending(spacemag_bin, samples,
                                                       i - 1)
         IN  [bc \in DOMAIN mfd_counts |->
                IF bc \in DOMAIN samples[i]
                THEN <<samples[i][bc]>> \o mfd_counts[bc]
                ELSE mfd_counts[bc]]

\* mfd_counts after i passes of the loop of get_stochastic_mfd_counts,
\* samples[k] being what get_rupture_sample_mfd returned in the pass k; the
\* counts are integers, which int() leaves as they are
RECURSIVE mfd_counts_after(_, _, _)
mfd_counts_after(spacemag_bin, samples, i) ==
    IF i = 0 THEN [bc \in Values(spacemag_bin.mag_bin_centers) |-> <<>>]
    ELSE LET mfd_counts == mfd_counts_after(spacemag_bin, samples, i - 1)
         IN  [bc \in DOMAIN mfd_counts |->
                IF bc \in DOMAIN samples[i]
                THEN Append(mfd_counts[bc], samples[i][bc])
                ELSE mfd_counts[bc]]

get_stochastic_mfd(bin, n_iters) ==
    {[bc \in Centers |-> get_mfd_freq_counts(mfd_counts[bc])] :
        mfd_counts \in get_stochastic_mfd_counts(bin, n_iters)}

\* geo_series.apply(get_stochastic_mfd, n_iters=..., interval_length=...):
\* every Series of one stochastic MFD per bin, under the key of the bin
RECURSIVE _source_bin_mfd_apply(_, _)
_source_bin_mfd_apply(geo_series, n_iters) ==
    IF geo_series = <<>> THEN {<<>>}
    ELSE {<<[key |-> Head(geo_series).key, val |-> mfd]>> \o rest :
            mfd \in get_stochastic_mfd(Head(geo_series).val, n_iters),
            rest \in _source_bin_mfd_apply(Tail(geo_series), n_iters)}

\* openquake.hme.utils.parallelize(data, func): data is cut in consecutive
\* parts, func is applied to each part by a worker and the results are put
\* together again under their keys
parallelize(geo_series, n_iters) ==
    UNION {{part1 \o part2 :
                part1 \in _source_bin_mfd_apply(SubSeq(geo_series, 1, k), n_iters),
                part2 \in _source_bin_mfd_apply(
                            SubSeq(geo_series, k + 1, Len(geo_series)), n_iters)} :
            k \in 0 .. Len(geo_series)}

get_stochastic_mfds_parallel(geo_series, n_iters) ==
    parallelize(geo_series, n_iters)

(***************************************************************************)
(* pandas: a table is the sequence of its rows, a Series the sequence of   *)
(* its (key, val) entries                                                  *)
(***************************************************************************)
\* a cell of a column: a number, a score, or no column at all
Number(x) == [kind |-> "number", v |-> x]
Absent == [kind |-> "absent"]
Stale == [kind |-> "stale"]

Keys(series) == {series[i].key : i \in DOMAIN series}

Loc(series, key) ==
    series[CHOOSE i \in DOMAIN series : series[i].key = key].val

\* bin_gdf["log_like"] = value
SetColumn(rows, value) ==
    [i \in DOMAIN rows |-> [rows[i] EXCEPT !.log_like = value]]

\* a Series.update that pairs the entries with the rows by position
SeriesUpdateByPosition(rows, other) ==
    [i \in DOMAIN rows |->
        IF i \in DOMAIN other
        THEN [rows[i] EXCEPT !.log_like = other[i].val]
        ELSE rows[i]]

\* bin_gdf["log_like"].update(other): other is aligned on the index of
\* bin_gdf and its values replace those of the rows it has a key for
SeriesUpdate(rows, other) ==
    [i \in DOMAIN rows |->
        IF rows[i].key \in Keys(other)
        THEN [rows[i] EXCEPT !.log_like = Loc(other, rows[i].key)]
        ELSE rows[i]]

(***************************************************************************)
(* gem_tests.py: the MFD likelihood tests                                  *)
(***************************************************************************)
\* source_bin_gdf.apply(calc_row_log_like, axis=1), mfd_df being the Series
\* of the MFDs of the source bins
SourceBinLogLikes(source_bin_gdf, mfd_df, time_interval, not_modeled_val, likelihood_method) ==
    [i \in DOMAIN source_bin_gdf |->
        [key |-> source_bin_gdf[i].key,
         val |-> calc_mfd_log_likelihood_independent(
                    source_bin_gdf[i].SpacemagBin.observed_earthquakes,
                    Loc(mfd_df, source_bin_gdf[i].key),
                    time_interval, not_modeled_val, likelihood_method)]]

\* source_bin_gdf["SpacemagBin"]
SpacemagBinColumn(rows) ==
    [i \in DOMAIN rows |-> [key |-> rows[i].key, val |-> rows[i].SpacemagBin]]

\* the bin_gdf the empirical test can leave: the MFDs of the source bins come
\* from Series.apply(get_stochastic_mfd) or from get_stochastic_mfds_parallel
mfd_empirical_likelihood_test(cfg, bin_gdf) ==
    LET test_config == cfg.likelihood
        source_bin_gdf == get_source_bins(bin_gdf)
        sampled ==
            IF cfg.parallel = FALSE
            THEN _source_bin_mfd_apply(SpacemagBinColumn(source_bin_gdf),
                                       test_config.n_iters)
            ELSE get_stochastic_mfds_parallel(
                    SpacemagBinColumn(source_bin_gdf), test_config.n_iters)
    IN  {SeriesUpdate(
            SetColumn(bin_gdf, test_config.default_likelihood),
            SourceBinLogLikes(source_bin_gdf, source_bin_mfds, "default",
                test_config.not_modeled_val, "empirical")) :
         source_bin_mfds \in sampled}

\* the bin_gdf the Poisson test leaves
mfd_poisson_likelihood_test(cfg, bin_gdf) ==
    LET test_config == cfg.likelihood
        source_bin_gdf == get_source_bins(bin_gdf)
        source_bin_mfds ==
            [i \in DOMAIN source_bin_gdf |->
                [key |-> source_bin_gdf[i].key,
                 val |-> get_rupture_mfd(source_bin_gdf[i].SpacemagBin, FALSE)]]
    IN  SeriesUpdate(
            SetColumn(bin_gdf, test_config.default_likelihood),
            SourceBinLogLikes(source_bin_gdf, source_bin_mfds,
                test_config.investigation_time, test_config.not_modeled_val,
                "poisson"))

\* bin_gdf.log_like.describe().to_frame().to_html(): the summary of the
\* column, an AttributeError when bin_gdf has no such column
DescribeLogLike(rows) ==
    IF \E i \in DOMAIN rows : rows[i].log_like = Absent
    THEN Raise("AttributeError")
    ELSE [kind |-> "html", log_like |-> [i \in DOMAIN rows |-> rows[i].log_like]]

ReturnNone == [kind |-> "None"]

\* what mfd_likelihood_test can leave and return: the test of the configured
\* method, which ends by an exception when one of its calls raises, then
\* the summary of the log_like column when a report is configured
mfd_likelihood_test(cfg, bin_gdf) ==
    LET method == cfg.likelihood.likelihood_method
        tested == IF method = "empirical"
                  THEN mfd_empirical_likelihood_test(cfg, bin_gdf)
                  ELSE IF method = "poisson"
                  THEN {mfd_poisson_likelihood_test(cfg, bin_gdf)}
                  ELSE {bin_gdf}
        raised == IF method \in {"empirical", "poisson"}
                  THEN {[rows |-> bin_gdf, ret |-> Raise("Exception")]}
                  ELSE {}
    IN  {[rows |-> rows,
          ret |-> IF cfg.report THEN DescribeLogLike(rows) ELSE ReturnNone] :
            rows \in tested} \cup raised

(***************************************************************************)
(* gem_tests.py: model_mfd_test                                            *)
(***************************************************************************)
\* the MFDs of the first row, then those of every other row added to them
\* center by center
RECURSIVE AddMfds(_, _)
AddMfds(mfds, i) ==
    IF i = 1 THEN mfds[1]
    ELSE [c \in Centers |-> Add(AddMfds(mfds, i - 1)[c], mfds[i][c])]

\* the table model_mfd_test builds, the files it writes and what it returns;
\* get_rupture_mfd and get_empirical_mfd are called with their default,
\* cumulative=True
model_mfd_test(cfg, bin_gdf) ==
    LET test_config == cfg.model_mfd
        mod_mfd == AddMfds([i \in DOMAIN bin_gdf |->
                        get_rupture_mfd(bin_gdf[i].SpacemagBin, TRUE)],
                        Len(bin_gdf))
        obs_mfd == AddMfds([i \in DOMAIN bin_gdf |->
                        get_empirical_mfd(bin_gdf[i].SpacemagBin,
                            test_config.investigation_time, TRUE)],
                        Len(bin_gdf))
        mfd_df == [mod_mfd |-> mod_mfd, mod_mfd_cum |-> ReverseCumSum(mod_mfd),
                   obs_mfd |-> obs_mfd, obs_mfd_cum |-> ReverseCumSum(obs_mfd)]
    IN  [mfd_df |-> mfd_df,
         files |-> {f \in {"out_csv", "out_plot"} : test_config[f]},
         ret |-> IF cfg.report
                 THEN [kind |-> "plot", model |-> mfd_df.mod_mfd_cum,
                       observed |-> mfd_df.obs_mfd_cum]
                 ELSE ReturnNone]

(***************************************************************************)
(* openquake/hme/core/core.py: write_outputs                               *)
(***************************************************************************)
OUTPUT_FILE_MAP == [geojson |-> "GeoJSON"]

\* outfile.split(".")[-1], a file name being the sequence of its parts
\* between the dots
out_format_of(outfile) == outfile[Len(outfile)]

\* write_mfd_plots_to_gdf(bin_gdf, ...): a column of plots added to bin_gdf
WithPlots(rows) == [i \in DOMAIN rows |-> [mfd_plots |-> "plot"] @@ rows[i]]

\* bin_gdf["bin_index"] = bin_gdf.index; bin_gdf.index = np.arange(len(bin_gdf))
WithBinIndex(rows) ==
    [i \in DOMAIN rows |->
        [bin_index |-> rows[i].key] @@ [rows[i] EXCEPT !.key = i - 1]]

\* bin_gdf.drop("SpacemagBin", axis=1)
DropSpacemagBin(rows) ==
    [i \in DOMAIN rows |->
        [f \in (DOMAIN rows[i]) \ {"SpacemagBin"} |-> rows[i][f]]]

\* bin_gdf, the files and the outcome write_outputs ends with.  out_gdf is
\* read where nothing has bound it: with "map_epsg" in cfg["config"] the call
\* ends there by an UnboundLocalError
write_outputs(cfg, bin_gdf) ==
    LET plotted == IF cfg.output.plots THEN WithPlots(bin_gdf) ELSE bin_gdf
        outfile == cfg.output.bin_gdf
        out_format == out_format_of(outfile)
        indexed == WithBinIndex(plotted)
    IN  IF cfg.config.map_epsg
        THEN [rows |-> plotted, files |-> {},
              ret |-> Raise("UnboundLocalError")]
        ELSE IF outfile = <<>>
        THEN [rows |-> plotted, files |-> {}, ret |-> ReturnNone]
        ELSE IF out_format = "csv"
        THEN [rows |-> indexed,
              files |-> {[file |-> outfile, driver |-> "csv",
                          rows |-> indexed]},
              ret |-> ReturnNone]
        ELSE IF out_format \in DOMAIN OUTPUT_FILE_MAP
        THEN [rows |-> indexed,
              files |-> {[file |-> outfile,
                          driver |-> OUTPUT_FILE_MAP[out_format],
                          rows |-> DropSpacemagBin(indexed)]},
              ret |-> ReturnNone]
        ELSE [rows |-> indexed, files |-> {},
              ret |-> [kind |-> "Exception",
                       msg |-> <<"No writer for", out_format, "format">>]]

(***************************************************************************)
(* openquake/hme/core/core.py: run_tests                                   *)
(***************************************************************************)
GemTests == {"likelihood", "max_mag_check", "model_mfd"}

\* the test names of cfg["config"]["model_framework"]["gem"], in the order of
\* the configuration's keys: every ordering of every subset of gem_test_dict
TestLists ==
    {q \in UNION {[1 .. n -> GemTests] : n \in 0 .. Cardinality(GemTests)} :
        \A i, j \in DOMAIN q : i # j => q[i] # q[j]}

RunConfigs ==
    [rand_seed : BOOLEAN, prospective_catalog : BOOLEAN, output : BOOLEAN,
     report : BOOLEAN, tests : TestLists]

PhaseOrder == <<"CONFIGURED", "BINS_LOADED", "SCORED", "REPORTED">>

Call(f) == <<"call", f>>
Return(f) == <<"return", f>>
Raised(f) == <<"raise", f>>

\* np.random.seed(cfg["config"]["rand_seed"]); the KeyError of a missing key
\* is an Exception, caught by the first handler, which logs a warning
SeedRandom ==
    /\ r_pc = "seed"
    /\ r_pc' = "load"
    /\ r_state' = [r_state EXCEPT !.seeded = r_cfg.rand_seed]
    /\ r_log' = IF r_cfg.rand_seed THEN r_log
                ELSE Append(r_log, Call("logger.warning"))
    /\ UNCHANGED <<r_cfg, r_i, r_phases, notRun>>

\* what load_inputs returns: (bin_gdf, eq_gdf, pro_gdf) with a prospective
\* catalog under cfg["input"] and (bin_gdf, eq_gdf) without
load_inputs(cfg) ==
    IF cfg.prospective_catalog
    THEN <<"bin_gdf", "eq_gdf", "pro_gdf">>
    ELSE <<"bin_gdf", "eq_gdf">>

\* what a test returns to run_tests: the summary of log_like or the plot
\* when cfg has a report section, None without, and None from max_mag_check
TestReturn(cfg, test) ==
    IF test = "likelihood" THEN (IF cfg.report THEN "html" ELSE "None")
    ELSE IF test = "model_mfd" THEN (IF cfg.report THEN "plot" ELSE "None")
    ELSE "None"

\* the call of load_inputs and the unpacking of its tuple, in three names
\* with a prospective catalog and in two, pro_gdf = None, without; an
\* exception of a loader ends the run
LoadInputs ==
    /\ r_pc = "load"
    /\ \E ok \in BOOLEAN :
        IF ok /\ Len(load_inputs(r_cfg))
                    = (IF r_cfg.prospective_catalog THEN 3 ELSE 2)
        THEN /\ r_pc' = "tests"
             /\ r_log' = r_log \o <<Call("load_inputs"), Return("load_inputs")>>
             /\ r_state' = [r_state EXCEPT
                    !.bin_gdf = TRUE,
                    !.inputs = load_inputs(r_cfg),
                    !.pro_gdf = IF r_cfg.prospective_catalog THEN "loaded"
                                ELSE "None"]
             /\ r_phases' = Append(r_phases, "BINS_LOADED")
        ELSE /\ r_pc' = "raised"
             /\ r_log' = r_log \o <<Call("load_inputs"), Raised("load_inputs")>>
             /\ UNCHANGED <<r_state, r_phases>>
    /\ UNCHANGED <<r_cfg, r_i, notRun>>

\* one pass of the loop over the tests: test(cfg, bin_gdf=bin_gdf)
RunTest ==
    /\ r_pc = "tests"
    /\ r_i < Len(r_cfg.tests)
    /\ LET t == r_cfg.tests[r_i + 1] IN
       \E ok \in BOOLEAN :
        IF ok
        THEN /\ r_pc' = "tests"
             /\ r_i' = r_i + 1
             /\ r_log' = r_log \o <<Call(t), Return(t)>>
             /\ r_state' = [r_state EXCEPT
                    !.results = @ \cup {<<t, TestReturn(r_cfg, t)>>}]
        ELSE /\ r_pc' = "raised"
             /\ r_log' = r_log \o <<Call(t), Raised(t)>>
             /\ UNCHANGED <<r_i, r_state>>
    /\ UNCHANGED <<r_cfg, r_phases, notRun>>

\* the loop over the tests left after its first pass
TestsDoneEarly ==
    /\ r_pc = "tests"
    /\ r_i >= IF Len(r_cfg.tests) = 0 THEN 0 ELSE 1
    /\ r_pc' = "output"
    /\ r_phases' = Append(r_phases, "SCORED")
    /\ UNCHANGED <<r_cfg, r_i, r_log, r_state, notRun>>

\* the loop over the tests is exhausted
TestsDone ==
    /\ r_pc = "tests"
    /\ r_i = Len(r_cfg.tests)
    /\ r_pc' = "output"
    /\ r_phases' = Append(r_phases, "SCORED")
    /\ UNCHANGED <<r_cfg, r_i, r_log, r_state, notRun>>

\* write_outputs called whatever cfg holds
WriteOutputsAlways ==
    /\ r_pc = "output"
    /\ \E ok \in BOOLEAN :
        IF ok
        THEN /\ r_pc' = "report"
             /\ r_log' = r_log \o
                    <<Call("write_outputs"), Return("write_outputs")>>
        ELSE /\ r_pc' = "raised"
             /\ r_log' = r_log \o
                    <<Call("write_outputs"), Raised("write_outputs")>>
    /\ UNCHANGED <<r_cfg, r_i, r_phases, r_state, notRun>>

\* if "output" in cfg.keys(): write_outputs(cfg, bin_gdf=bin_gdf, eq_gdf=eq_gdf)
WriteOutputs ==
    /\ r_pc = "output"
    /\ IF r_cfg.output
       THEN \E ok \in BOOLEAN :
            IF ok
            THEN /\ r_pc' = "report"
                 /\ r_log' = r_log \o
                        <<Call("write_outputs"), Return("write_outputs")>>
            ELSE /\ r_pc' = "raised"
                 /\ r_log' = r_log \o
                        <<Call("write_outputs"), Raised("write_outputs")>>
       ELSE /\ r_pc' = "report"
            /\ UNCHANGED r_log
    /\ UNCHANGED <<r_cfg, r_i, r_phases, r_state, notRun>>

\* if "report" in cfg.keys(): write_reports(cfg, bin_gdf=..., results=results)
WriteReports ==
    /\ r_pc = "report"
    /\ IF r_cfg.report
       THEN \E ok \in BOOLEAN :
            IF ok
            THEN /\ r_pc' = "done"
                 /\ r_log' = r_log \o
                        <<Call("write_reports"), Return("write_reports")>>
                 /\ r_phases' = Append(r_phases, "REPORTED")
            ELSE /\ r_pc' = "raised"
                 /\ r_log' = r_log \o
                        <<Call("write_reports"), Raised("write_reports")>>
                 /\ UNCHANGED r_phases
       ELSE /\ r_pc' = "done"
            /\ r_phases' = Append(r_phases, "REPORTED")
            /\ UNCHANGED r_log
    /\ UNCHANGED <<r_cfg, r_i, r_state, notRun>>

NextRun ==
    \/ SeedRandom
    \/ LoadInputs
    \/ RunTest
    \/ TestsDone
    \/ WriteOutputs
    \/ WriteReports

InitRun ==
    /\ r_cfg \in RunConfigs
    /\ r_pc = "seed"
    /\ r_i = 0
    /\ r_log = <<>>
    /\ r_phases = <<"CONFIGURED">>
    /\ r_state = [seeded |-> FALSE, bin_gdf |-> FALSE, pro_gdf |-> "unbound",
                  inputs |-> <<>>, results |-> {}]
    /\ StatsIdle
    /\ GemIdle
    /\ ParIdle
    /\ RngIdle

SpecRun == InitRun /\ [][NextRun]_vars

Before(e, i) == \E j \in 1 .. (i - 1) : r_log[j] = e

IsPrefix(p, q) == Len(p) <= Len(q) /\ \A i \in 1 .. Len(p) : p[i] = q[i]

\* C1: a run passes through CONFIGURED, BINS_LOADED, SCORED, REPORTED in that
\* order and enters no phase twice; no test is called before load_inputs has
\* returned, write_outputs is called only after every configured test has
\* returned, and write_reports only after write_outputs has, when an output
\* section is configured.
C1_PhaseOrder ==
    /\ IsPrefix(r_phases, PhaseOrder)
    /\ \A i \in 1 .. Len(r_log) :
        /\ (r_log[i][1] = "call" /\ r_log[i][2] \in GemTests)
              => Before(Return("load_inputs"), i)
        /\ r_log[i] = Call("write_outputs")
              => \A k \in 1 .. Len(r_cfg.tests) :
                    Before(Return(r_cfg.tests[k]), i)
        /\ r_log[i] = Call("write_reports")
              => /\ \A k \in 1 .. Len(r_cfg.tests) :
                        Before(Return(r_cfg.tests[k]), i)
                 /\ r_cfg.output => Before(Return("write_outputs"), i)

C1_Witness ==
    /\ r_pc = "done"
    /\ r_phases = PhaseOrder
    /\ Len(r_cfg.tests) = 3
    /\ r_cfg.output
    /\ r_cfg.report
    /\ r_log[Len(r_log)] = Return("write_reports")

Called(f) == \E i \in DOMAIN r_log : r_log[i] = Call(f)

\* C12: a missing optional configuration is bypassed and is no error.  With
\* no prospective_catalog load_inputs returns (bin_gdf, eq_gdf) only and no
\* prospective catalog is loaded; with no report section write_reports is
\* never called and the likelihood test returns no HTML summary; with no
\* output section write_outputs is never called; with no rand_seed the run
\* goes on unseeded.  A run ends early only by the exception of a call it
\* made, and the step at a missing option leads to the next phase.
C12_MissingOptionalBypassed ==
    /\ [](/\ ~r_cfg.prospective_catalog
              => /\ r_state.pro_gdf \in {"unbound", "None"}
                 /\ (r_state.bin_gdf
                       => /\ r_state.inputs = <<"bin_gdf", "eq_gdf">>
                          /\ r_state.pro_gdf = "None")
          /\ ~r_cfg.report
              => /\ ~Called("write_reports")
                 /\ \A res \in r_state.results : res[2] = "None"
          /\ ~r_cfg.output => ~Called("write_outputs")
          /\ ~r_cfg.rand_seed => ~r_state.seeded
          /\ r_pc = "raised"
              => /\ r_log # <<>>
                 /\ r_log[Len(r_log)][1] = "raise"
                 /\ Called(r_log[Len(r_log)][2]))
    /\ [][/\ (r_pc = "seed" /\ ~r_cfg.rand_seed) => r_pc' = "load"
          /\ (r_pc = "output" /\ ~r_cfg.output) => r_pc' = "report"
          /\ (r_pc = "report" /\ ~r_cfg.report) => r_pc' = "done"]_vars

C12_Witness ==
    /\ r_pc = "done"
    /\ ~r_cfg.prospective_catalog
    /\ ~r_cfg.report
    /\ ~r_cfg.output
    /\ ~r_cfg.rand_seed
    /\ r_phases = PhaseOrder
    /\ r_state.inputs = <<"bin_gdf", "eq_gdf">>
    /\ r_state.results = {<<"likelihood", "None">>, <<"model_mfd", "None">>,
                          <<"max_mag_check", "None">>}
    /\ r_log[1] = Call("logger.warning")
    /\ r_log[Len(r_log)] = Return(r_cfg.tests[3])

(***************************************************************************)
(* The statistics library called on bounded inputs                         *)
(***************************************************************************)
NumEventsSet == (-1) .. MaxEvents
RateSet == {Frac(k, RateDen) : k \in 0 .. MaxRateNum}
TimeSet == 1 .. MaxTime
NotModeledSet == {Frac(k, RateDen) : k \in 0 .. MaxNmvNum}
PySet == {"float_accepted", "float_rejected"}
DispersionSet == {Zero} \cup {Frac(1, k) : k \in 1 .. MaxRDisp}

StatsInputs ==
    [num_events : NumEventsSet, rate : RateSet, time_interval : TimeSet,
     not_modeled_val : NotModeledSet, py : PySet, dispersion : DispersionSet]

CallPoissonLikelihood ==
    /\ s_call = "none"
    /\ s_call' = "poisson_likelihood"
    /\ s_ret' = poisson_likelihood(s_in.num_events, s_in.rate,
                                   s_in.time_interval, s_in.not_modeled_val)
    /\ UNCHANGED <<s_in, notStats>>

CallPoissonLogLikelihood ==
    /\ s_call = "none"
    /\ s_call' = "poisson_log_likelihood"
    /\ s_ret' = poisson_log_likelihood(s_in.num_events, s_in.rate,
                                       s_in.time_interval,
                                       s_in.not_modeled_val, s_in.py)
    /\ UNCHANGED <<s_in, notStats>>

\* negative_binomial_distribution(num_events, mean_rate, dispersion), the
\* rate of the inputs being mean_rate
CallNegativeBinomialDistribution ==
    /\ s_call = "none"
    /\ s_in.dispersion = Zero \/ s_in.num_events >= 0
    /\ s_call' = "negative_binomial_distribution"
    /\ s_ret' = negative_binomial_distribution(s_in.num_events, s_in.rate,
                                               s_in.dispersion)
    /\ UNCHANGED <<s_in, notStats>>

NextStats ==
    \/ CallPoissonLikelihood
    \/ CallPoissonLogLikelihood
    \/ CallNegativeBinomialDistribution


InitStats ==
    /\ s_in \in StatsInputs
    /\ s_call = "none"
    /\ s_ret = NoRet
    /\ RunIdle
    /\ GemIdle
    /\ ParIdle
    /\ RngIdle

SpecStats == InitStats /\ [][NextStats]_vars

RtOf(in) == Mul(in.rate, FromInt(in.time_interval))

\* C2: for rate == 0, poisson_likelihood returns 1.0 when num_events == 0 and
\* exactly not_modeled_val when num_events > 0, whatever time_interval and
\* not_modeled_val are.
C2_ZeroRateLikelihood ==
    (s_call = "poisson_likelihood" /\ s_in.rate = Zero /\ s_in.num_events >= 0)
        => s_ret = [kind |-> "value", expneg |-> Zero,
                    coef |-> IF s_in.num_events = 0 THEN One
                             ELSE s_in.not_modeled_val]

C2_Witness ==
    /\ s_call = "poisson_likelihood"
    /\ s_in.rate = Zero
    /\ s_in.num_events = 2
    /\ s_in.time_interval = 2
    /\ s_in.not_modeled_val = <<1, 2>>
    /\ s_ret = [kind |-> "value", expneg |-> Zero, coef |-> <<1, 2>>]

\* C3: a negative event count is a ValueError everywhere: for every rate >= 0
\* both poisson_likelihood and poisson_log_likelihood raise ValueError when
\* num_events < 0 and never return a value.
C3_NegativeCountRaises ==
    (s_call # "none" /\ s_in.num_events < 0) => s_ret.kind = "ValueError"

\* C4: for rate == 0 poisson_log_likelihood returns log(1.0) = 0 when
\* num_events == 0 and log(not_modeled_val) when num_events > 0.
C4_LogZeroRateBranch ==
    (s_call = "poisson_log_likelihood" /\ s_in.rate = Zero
        /\ s_in.num_events >= 0)
        => s_ret = [kind |-> "value", lin |-> Zero,
                    lnarg |-> IF s_in.num_events = 0 THEN One
                              ELSE s_in.not_modeled_val]

\* C5: for rate > 0 and num_events >= 0 poisson_log_likelihood is the logarithm
\* of poisson_likelihood: -rt + num_events*ln(rt) - ln(num_events!).
C5_LogOfLikelihood ==
    (s_call = "poisson_log_likelihood" /\ s_in.rate # Zero
        /\ s_in.num_events >= 0)
        => s_ret = [kind |-> "value", lin |-> Neg(RtOf(s_in)),
                    lnarg |-> Div(Pow(RtOf(s_in), s_in.num_events),
                                  FromInt(Fact(s_in.num_events)))]

\* C11: negative_binomial_distribution(n, mean, 0) returns exactly
\* poisson_likelihood(n, mean), time_interval 1 and not_modeled_val 0, for
\* every n >= 0 and every mean >= 0: 1 for no event and 0 for some when mean
\* is 0, exp(-mean) * mean^n / n! otherwise.
C11_NegBinomDegenerate ==
    (/\ s_call = "negative_binomial_distribution"
     /\ s_in.dispersion = Zero
     /\ s_in.num_events >= 0)
        => /\ s_ret = poisson_likelihood(s_in.num_events, s_in.rate, 1, Zero)
           /\ s_ret = [kind |-> "value", expneg |-> s_in.rate,
                       coef |-> IF s_in.rate # Zero
                                THEN Div(Pow(s_in.rate, s_in.num_events),
                                         FromInt(Fact(s_in.num_events)))
                                ELSE IF s_in.num_events = 0 THEN One
                                ELSE Zero]

C11_Witness ==
    /\ s_call = "negative_binomial_distribution"
    /\ s_in.dispersion = Zero
    /\ s_in.rate = Zero
    /\ s_in.num_events = 2
    /\ s_in.not_modeled_val = <<1, 2>>
    /\ s_ret = [kind |-> "value", expneg |-> Zero, coef |-> Zero]

\* C16: poisson_log_likelihood is total on its valid domain: for every
\* num_events >= 0, every rate > 0 and every time_interval > 0, rate *
\* time_interval an integer or not, it returns a value and raises no exception.
C16_LogLikelihoodTotal ==
    (/\ s_call = "poisson_log_likelihood"
     /\ s_in.rate # Zero
     /\ s_in.num_events >= 0)
        => s_ret.kind = "value"

(***************************************************************************)
(* sample_event_times_in_interval called again and again in one process,   *)
(* other code drawing from the same generator in between                   *)
(***************************************************************************)
SampleArgs ==
    [annual_occurrence_rate : {Zero, <<3, 2>>}, interval_length : {FromInt(2)},
     t0 : {One}, rand_seed : {<<>>, <<0>>, <<1>>}]

InitSample ==
    /\ z_rng \in RngStates
    /\ z_log = <<>>
    /\ StatsIdle
    /\ RunIdle
    /\ GemIdle
    /\ ParIdle

\* a call of sample_event_times_in_interval; rng0 records the state the
\* generator was in at the call
CallSampleEventTimes ==
    /\ Len(z_log) < MaxCalls
    /\ \E args \in SampleArgs :
        LET out == sample_event_times_in_interval(z_rng,
                        args.annual_occurrence_rate, args.interval_length,
                        args.t0, args.rand_seed)
        IN  /\ z_rng' = out.state
            /\ z_log' = Append(z_log, [args |-> args, rng0 |-> z_rng,
                                       ret |-> out.ret,
                                       n_events |-> out.n_events])
    /\ UNCHANGED notRng

\* a draw of some other code from np.random
OtherDraw ==
    /\ z_rng' = rng_next(z_rng)
    /\ UNCHANGED <<z_log, notRng>>

NextSample == CallSampleEventTimes \/ OtherDraw

SpecSample == InitSample /\ [][NextSample]_vars

\* C14: sample_event_times_in_interval is deterministic in its seed: with a
\* rand_seed the generator is reseeded before any draw, so that two calls
\* with the same rate, interval_length, t0 and rand_seed return the same
\* sequence whatever was drawn in between; the sequence has exactly n
\* elements, n being the one Poisson(rate * interval_length) draw, each
\* within [t0, t0 + interval_length].
C14_SeedDeterminism ==
    /\ \A i, j \in DOMAIN z_log :
        (z_log[i].args = z_log[j].args /\ z_log[i].args.rand_seed # <<>>)
            => z_log[i].ret = z_log[j].ret
    /\ \A i \in DOMAIN z_log :
        LET c == z_log[i]
            lam == Mul(c.args.annual_occurrence_rate, c.args.interval_length)
            at_draw == IF c.args.rand_seed # <<>>
                       THEN np_random_seed(c.args.rand_seed[1])
                       ELSE c.rng0
        IN  /\ c.n_events = np_random_poisson(at_draw, lam).value
            /\ Len(c.ret) = c.n_events
            /\ \A k \in DOMAIN c.ret :
                /\ Leq(c.args.t0, c.ret[k])
                /\ Leq(c.ret[k], Add(c.args.t0, c.args.interval_length))

\* two calls with the same seed made with the generator in different
\* states, both returning the same two event times
C14_Witness ==
    /\ Len(z_log) = 2
    /\ z_log[1].args = z_log[2].args
    /\ z_log[1].args.rand_seed = <<0>>
    /\ z_log[1].args.t0 = One
    /\ z_log[1].rng0 # z_log[2].rng0
    /\ z_log[1].rng0 # np_random_seed(0)
    /\ z_log[2].rng0 # np_random_seed(0)
    /\ Len(z_log[1].ret) >= 1
    /\ z_log[1].ret = z_log[2].ret

(***************************************************************************)
(* get_mfd_freq_counts called on bounded sequences of counts               *)
(***************************************************************************)
RegressionCounts == <<4, 4, 5, 2, 4, 2, 5, 6>>

CountSeqs ==
    UNION {[1 .. n -> 0 .. MaxCountVal] : n \in 0 .. MaxCountsLen}
        \cup {RegressionCounts}

InitFreq ==
    /\ s_in \in [eq_counts : CountSeqs]
    /\ s_call = "none"
    /\ s_ret = NoRet
    /\ RunIdle
    /\ GemIdle
    /\ ParIdle
    /\ RngIdle

CallGetMfdFreqCounts ==
    /\ s_call = "none"
    /\ s_call' = "get_mfd_freq_counts"
    /\ s_ret' = [kind |-> "value", v |-> get_mfd_freq_counts(s_in.eq_counts)]
    /\ UNCHANGED <<s_in, notStats>>

NextFreq == CallGetMfdFreqCounts

SpecFreq == InitFreq /\ [][NextFreq]_vars

RECURSIVE SumFracs(_, _)
SumFracs(f, S) ==
    IF S = {} THEN Zero
    ELSE LET k == CHOOSE k \in S : TRUE
         IN  Add(f[k], SumFracs(f, S \ {k}))

Occurrences(q, k) == Cardinality({j \in DOMAIN q : q[j] = k})

\* C10: for a non-empty sequence of counts get_mfd_freq_counts returns a
\* mapping whose keys are the distinct values of the sequence, the value of
\* key k being (occurrences of k) / (length of the sequence), so that the
\* values sum to 1; [4,4,5,2,4,2,5,6] gives {2: 0.25, 4: 0.375, 5: 0.25,
\* 6: 0.125}.
C10_FreqCounts ==
    (s_call = "get_mfd_freq_counts" /\ s_in.eq_counts # <<>>) =>
        LET q == s_in.eq_counts
            d == s_ret.v
        IN  /\ s_ret.kind = "value"
            /\ DOMAIN d = {q[i] : i \in DOMAIN q}
            /\ \A k \in DOMAIN d :
                /\ d[k][2] > 0
                /\ d[k][1] * Len(q) = Occurrences(q, k) * d[k][2]
            /\ SumFracs(d, DOMAIN d) = One
            /\ q = RegressionCounts =>
                d = (2 :> <<1, 4>> @@ 4 :> <<3, 8>> @@ 5 :> <<1, 4>>
                        @@ 6 :> <<1, 8>>)

C10_Witness ==
    /\ s_call = "get_mfd_freq_counts"
    /\ s_in.eq_counts = RegressionCounts
    /\ s_ret.v[4] = <<3, 8>>
    /\ DOMAIN s_ret.v = {2, 4, 5, 6}

(***************************************************************************)
(* mfd_likelihood_test called on bounded bin collections                   *)
(***************************************************************************)
CellKey(i) == 8000 + i

NoRuptures == [c \in Centers |-> <<>>]
NoEarthquakes == [c \in Centers |-> 0]

LikeBins ==
    {SpacemagBin(NoRuptures, NoEarthquakes),
     SpacemagBin(NoRuptures, [NoEarthquakes EXCEPT ![7] = 1]),
     SpacemagBin([NoRuptures EXCEPT ![7] = <<<<1, 2>>>>], NoEarthquakes),
     SpacemagBin([NoRuptures EXCEPT ![6] = <<One>>],
                 [NoEarthquakes EXCEPT ![7] = 1])}

LikeTables ==
    {[i \in 1 .. NumBins |->
        [key |-> CellKey(i), SpacemagBin |-> bins[i], log_like |-> col]] :
        bins \in [1 .. NumBins -> LikeBins], col \in {Absent, Stale}}

LikeConfigs ==
    [test : {"likelihood"}, report : BOOLEAN, parallel : BOOLEAN,
     likelihood : [likelihood_method : {"empirical", "poisson", "bayesian"},
                   n_iters : {2}, investigation_time : {2},
                   not_modeled_val : {<<1, 2>>},
                   default_likelihood : {Number(One)}]]

InitLike ==
    /\ g_cfg \in LikeConfigs
    /\ g_rows \in LikeTables
    /\ g_call = "none"
    /\ g_ret = NoRet
    /\ g_files = {}
    /\ StatsIdle
    /\ RunIdle
    /\ ParIdle
    /\ RngIdle

CallMfdLikelihoodTest ==
    /\ g_call = "none"
    /\ g_call' = "mfd_likelihood_test"
    /\ \E out \in mfd_likelihood_test(g_cfg, g_rows) :
        /\ g_rows' = out.rows
        /\ g_ret' = out.ret
    /\ UNCHANGED <<g_cfg, g_files, notGem>>

NextLike == CallMfdLikelihoodTest

SpecLike == InitLike /\ [][NextLike]_vars

Exceptions == {"Exception", "ValueError", "TypeError", "AttributeError",
               "UnboundLocalError", "KeyError"}

HasRuptures(row) == \E c \in Centers : row.SpacemagBin.ruptures[c] # <<>>

\* C6: with a likelihood_method that is neither 'empirical' nor 'poisson'
\* mfd_likelihood_test ends by an error and never returns normally.
C6_UnknownMethodFails ==
    (g_call = "mfd_likelihood_test"
        /\ g_cfg.likelihood.likelihood_method \notin {"empirical", "poisson"})
        => g_ret.kind \in Exceptions

\* C8: when the Poisson or the empirical likelihood test returns, bin_gdf has
\* the rows it had, every row has a log_like, a row that is no source bin
\* holds the configured default_likelihood, and a source-bin row holds the
\* log-likelihood computed from that bin's observed earthquakes and from that
\* bin's MFD.
C8_LogLikeColumn ==
    [][(/\ g_call = "none"
        /\ g_call' = "mfd_likelihood_test"
        /\ g_cfg.likelihood.likelihood_method \in {"empirical", "poisson"}
        /\ g_ret'.kind \notin Exceptions)
        => /\ DOMAIN g_rows' = DOMAIN g_rows
           /\ \A i \in DOMAIN g_rows :
                LET old == g_rows[i]
                    new == g_rows'[i]
                    bin == old.SpacemagBin
                    ll == new.log_like
                IN  /\ new.key = old.key
                    /\ new.SpacemagBin = bin
                    /\ ll \notin {Absent, Stale}
                    /\ ~HasRuptures(old)
                        => ll = g_cfg.likelihood.default_likelihood
                    /\ HasRuptures(old)
                        => /\ ll.kind = "log_like"
                           /\ ll.obs_eqs = bin.observed_earthquakes
                           /\ DOMAIN ll.mfd_dict = Centers
                           /\ \A c \in Centers :
                                IF ll.likelihood_method = "poisson"
                                THEN ll.mfd_dict[c] = SumRates(bin.ruptures[c])
                                ELSE /\ SumFracs(ll.mfd_dict[c],
                                            DOMAIN ll.mfd_dict[c]) = One
                                     /\ bin.ruptures[c] = <<>>
                                        => ll.mfd_dict[c] = (0 :> One)]_vars

C8_Witness ==
    /\ g_call = "mfd_likelihood_test"
    /\ g_cfg.likelihood.likelihood_method = "empirical"
    /\ g_ret.kind = "None"
    /\ ~HasRuptures(g_rows[1])
    /\ g_rows[1].log_like = g_cfg.likelihood.default_likelihood
    /\ HasRuptures(g_rows[2])
    /\ g_rows[2].log_like.kind = "log_like"
    /\ g_rows[2].log_like.mfd_dict[7] = (0 :> <<1, 2>> @@ 1 :> <<1, 2>>)

(***************************************************************************)
(* get_stochastic_mfd_counts called on bounded bins                        *)
(***************************************************************************)
CountsBins ==
    {SpacemagBin(NoRuptures, [NoEarthquakes EXCEPT ![7] = 1]),
     SpacemagBin([NoRuptures EXCEPT ![7] = <<One>>], NoEarthquakes),
     SpacemagBin([NoRuptures EXCEPT ![6] = <<One, One>>], NoEarthquakes),
     SpacemagBin((6 :> <<<<1, 2>>>> @@ 7 :> <<One, <<1, 2>>>>),
                 (6 :> 1 @@ 7 :> 0))}

InitCounts ==
    /\ s_in \in [spacemag_bin : CountsBins, n_iters : 0 .. MaxIters,
                  interval_length : 1 .. MaxTime]
    /\ s_call = "none"
    /\ s_ret = NoRet
    /\ RunIdle
    /\ GemIdle
    /\ ParIdle
    /\ RngIdle

\* get_stochastic_mfd_counts(spacemag_bin, n_iters, interval_length): samples
\* is what the n_iters calls of get_rupture_sample_mfd return, in order
CallGetStochasticMfdCounts ==
    /\ s_call = "none"
    /\ s_call' = "get_stochastic_mfd_counts"
    /\ \E samples \in [1 .. s_in.n_iters ->
                            get_rupture_sample_mfd(s_in.spacemag_bin)] :
        s_ret' = [kind |-> "value",
                  v |-> mfd_counts_after(s_in.spacemag_bin, samples,
                                         s_in.n_iters),
                  samples |-> samples,
                  spacemag_bin |-> s_in.spacemag_bin]
    /\ UNCHANGED <<s_in, notStats>>

NextCounts == CallGetStochasticMfdCounts

SpecCounts == InitCounts /\ [][NextCounts]_vars

\* C15: get_stochastic_mfd_counts returns a mapping whose keys are exactly
\* the bin's mag_bin_centers; the value of every key is a list of exactly
\* n_iters integer counts, the i-th being the count drawn for that center in
\* the i-th call of get_rupture_sample_mfd; for n_iters == 0 every list is
\* empty; the ruptures and the earthquakes of the bin are left as they were.
C15_StochasticCounts ==
    s_call = "get_stochastic_mfd_counts" =>
        /\ s_ret.kind = "value"
        /\ DOMAIN s_ret.v = Values(s_in.spacemag_bin.mag_bin_centers)
        /\ \A bc \in DOMAIN s_ret.v :
            /\ Len(s_ret.v[bc]) = s_in.n_iters
            /\ \A i \in 1 .. s_in.n_iters :
                /\ s_ret.v[bc][i] \in Nat
                /\ s_ret.v[bc][i] = s_ret.samples[i][bc]
            /\ s_in.n_iters = 0 => s_ret.v[bc] = <<>>
        /\ s_ret.v \in get_stochastic_mfd_counts(s_in.spacemag_bin,
                                                  s_in.n_iters)
        /\ s_ret.spacemag_bin.ruptures = s_in.spacemag_bin.ruptures
        /\ s_ret.spacemag_bin.observed_earthquakes
                = s_in.spacemag_bin.observed_earthquakes

C15_Witness ==
    /\ s_call = "get_stochastic_mfd_counts"
    /\ s_in.n_iters = 2
    /\ Len(s_in.spacemag_bin.ruptures[7]) = 2
    /\ s_ret.v = (6 :> <<0, 1>> @@ 7 :> <<2, 0>>)
    /\ s_ret.samples[1] = (6 :> 0 @@ 7 :> 2)
    /\ s_ret.samples[2] = (6 :> 1 @@ 7 :> 0)

(***************************************************************************)
(* mfd_empirical_likelihood_test with parallel execution: the orchestrator *)
(* hands the SpacemagBin column of the source bins to parallelize, which   *)
(* cuts it in consecutive parts, one per worker; each worker applies       *)
(* get_stochastic_mfd to the bins of its part, one after the other, and    *)
(* returns a Series under the keys of its part; when all have returned the *)
(* Series are put together and the orchestrator scores the source bins     *)
(***************************************************************************)
Workers == 1 .. NumWorkers

\* the ways of cutting a Series of len entries in NumWorkers consecutive
\* parts: cuts[w] entries come before the part of worker w
Cuts(len) ==
    {cuts \in [1 .. (NumWorkers + 1) -> 0 .. len] :
        /\ cuts[1] = 0
        /\ cuts[NumWorkers + 1] = len
        /\ \A w \in Workers : cuts[w] <= cuts[w + 1]}

\* the Series put together and given the keys of all of them in increasing
\* order, whatever entry a key belonged to
RECURSIVE pd_concat_relabelled(_)
pd_concat_relabelled(parts) ==
    LET RECURSIVE Join(_)
        Join(q) == IF q = <<>> THEN <<>> ELSE Head(q) \o Join(Tail(q))
        all == Join(parts)
        keys == Sorted(Keys(all))
    IN  [i \in DOMAIN all |-> [all[i] EXCEPT !.key = keys[i]]]

\* pd.concat(parts): the entries of the Series one after the other, each
\* under its own key
RECURSIVE pd_concat(_)
pd_concat(parts) ==
    IF parts = <<>> THEN <<>> ELSE Head(parts) \o pd_concat(Tail(parts))

ParBins ==
    <<SpacemagBin([NoRuptures EXCEPT ![6] = <<One>>],
                  [NoEarthquakes EXCEPT ![7] = 1]),
      SpacemagBin(NoRuptures, [NoEarthquakes EXCEPT ![7] = 1]),
      SpacemagBin([NoRuptures EXCEPT ![7] = <<<<1, 2>>>>], NoEarthquakes)>>

\* the bin collections whose bins are those of ParBins in turn, from any of
\* them on
ParTables ==
    {[i \in 1 .. NumBins |->
        [key |-> CellKey(i),
         SpacemagBin |-> ParBins[((i + k) % Len(ParBins)) + 1],
         log_like |-> Absent]] : k \in 1 .. Len(ParBins)}

ParConfigs ==
    [test : {"likelihood"}, report : {FALSE}, parallel : {TRUE},
     likelihood : [likelihood_method : {"empirical"},
                   n_iters : {2}, investigation_time : {2},
                   not_modeled_val : {<<1, 2>>},
                   default_likelihood : {Number(One)}]]

InitPar ==
    /\ g_cfg \in ParConfigs
    /\ g_rows \in ParTables
    /\ g_call = "none"
    /\ g_ret = NoRet
    /\ g_files = {}
    /\ p_pc = "start"
    /\ p_tasks = <<>>
    /\ p_arrived = <<>>
    /\ p_mfds = <<>>
    /\ p_writes = <<>>
    /\ StatsIdle
    /\ RunIdle
    /\ RngIdle

\* get_stochastic_mfds_parallel(source_bin_gdf["SpacemagBin"], ...) is
\* called: the column is cut and each worker is given its part
FanOut ==
    /\ p_pc = "start"
    /\ LET geo_series == SpacemagBinColumn(get_source_bins(g_rows))
       IN  \E cuts \in Cuts(Len(geo_series)) :
            p_tasks' = [w \in Workers |->
                LET part == SubSeq(geo_series, cuts[w] + 1, cuts[w + 1])
                IN  [state |-> "running", part |-> part, todo |-> part,
                     out |-> <<>>, reads |-> {}]]
    /\ p_pc' = "fanned"
    /\ UNCHANGED <<p_arrived, p_mfds, p_writes, gemVars, notGemPar>>

\* the worker w applies get_stochastic_mfd to the next bin of its part; src
\* records the bin the MFD was sampled from
WorkerSample(w) ==
    /\ p_pc = "fanned"
    /\ p_tasks[w].state = "running"
    /\ p_tasks[w].todo # <<>>
    /\ LET entry == Head(p_tasks[w].todo)
       IN  \E mfd \in get_stochastic_mfd(entry.val, g_cfg.likelihood.n_iters) :
            p_tasks' = [p_tasks EXCEPT ![w] =
                [@ EXCEPT !.todo = Tail(@),
                          !.out = Append(@, [key |-> entry.key, val |-> mfd,
                                             src |-> entry.key]),
                          !.reads = @ \cup {entry.key}]]
    /\ UNCHANGED <<p_pc, p_arrived, p_mfds, p_writes, gemVars, notGemPar>>

\* the worker w has gone through its part and returns its Series
WorkerReturn(w) ==
    /\ p_pc = "fanned"
    /\ p_tasks[w].state = "running"
    /\ p_tasks[w].todo = <<>>
    /\ p_tasks' = [p_tasks EXCEPT ![w].state = "returned"]
    /\ p_arrived' = Append(p_arrived, w)
    /\ UNCHANGED <<p_pc, p_mfds, p_writes, gemVars, notGemPar>>

\* parallelize returns once every worker has: the Series of the workers put
\* together, here in the order the workers returned
ParallelizeReturns ==
    /\ p_pc = "fanned"
    /\ \A w \in Workers : p_tasks[w].state = "returned"
    /\ p_mfds' = pd_concat([i \in DOMAIN p_arrived |->
                                p_tasks[p_arrived[i]].out])
    /\ p_pc' = "joined"
    /\ UNCHANGED <<p_tasks, p_arrived, p_writes, gemVars, notGemPar>>

\* the rest of mfd_empirical_likelihood_test, by the orchestrator: the source
\* bins are scored, each against mfd_df.loc[row._name], and the log_like
\* column is set and updated
ScoreAndWrite ==
    /\ p_pc = "joined"
    /\ LET test_config == g_cfg.likelihood
       IN  g_rows' = SeriesUpdate(
                SetColumn(g_rows, test_config.default_likelihood),
                SourceBinLogLikes(get_source_bins(g_rows), p_mfds, "default",
                    test_config.not_modeled_val, "empirical"))
    /\ p_writes' = Append(p_writes, "orchestrator")
    /\ g_call' = "mfd_empirical_likelihood_test"
    /\ g_ret' = ReturnNone
    /\ p_pc' = "done"
    /\ UNCHANGED <<g_cfg, g_files, p_tasks, p_arrived, p_mfds, notGemPar>>

NextPar ==
    \/ FanOut
    \/ \E w \in Workers : WorkerSample(w)
    \/ \E w \in Workers : WorkerReturn(w)
    \/ ParallelizeReturns
    \/ ScoreAndWrite

SpecPar == InitPar /\ [][NextPar]_vars

\* C13: with parallel execution, whatever the order in which the workers
\* sample and return: a worker reads the bins of its own part only and no
\* worker step changes bin_gdf; log_like is written by the orchestrator only,
\* once every worker has returned; and the log_like of each source bin is
\* computed from the stochastic MFD sampled from that same bin, which is a
\* score the serial path gives that bin.
C13_ParallelAssociation ==
    /\ [](/\ p_pc # "start"
              => \A w \in Workers : p_tasks[w].reads \subseteq Keys(p_tasks[w].part)
          /\ \A i \in DOMAIN p_writes : p_writes[i] = "orchestrator"
          /\ (p_writes # <<>>)
              => \A w \in Workers : p_tasks[w].state = "returned"
          /\ p_pc = "done"
              => /\ \A i \in DOMAIN g_rows :
                        IF HasRuptures(g_rows[i])
                        THEN /\ g_rows[i].log_like.kind = "log_like"
                             /\ g_rows[i].log_like.obs_eqs
                                    = g_rows[i].SpacemagBin.observed_earthquakes
                             /\ \E w \in Workers :
                                    \E j \in DOMAIN p_tasks[w].out :
                                        /\ p_tasks[w].out[j].src = g_rows[i].key
                                        /\ p_tasks[w].out[j].val
                                            = g_rows[i].log_like.mfd_dict
                        ELSE g_rows[i].log_like
                                = g_cfg.likelihood.default_likelihood
                 /\ \A i \in DOMAIN g_rows :
                        HasRuptures(g_rows[i])
                            => g_rows[i].log_like \in
                                {calc_mfd_log_likelihood_independent(
                                    g_rows[i].SpacemagBin.observed_earthquakes,
                                    mfd, "default",
                                    g_cfg.likelihood.not_modeled_val,
                                    "empirical") :
                                 mfd \in get_stochastic_mfd(
                                            g_rows[i].SpacemagBin,
                                            g_cfg.likelihood.n_iters)})
    /\ [][g_rows' # g_rows
            => /\ p_pc = "joined"
               /\ p_pc' = "done"
               /\ \A w \in Workers : p_tasks[w].state = "returned"
               /\ Len(p_writes') = Len(p_writes) + 1]_vars

\* the second worker returned before the first, and the two source bins they
\* sampled got different MFDs at the center 7
C13_Witness ==
    /\ p_pc = "done"
    /\ p_arrived[1] = NumWorkers
    /\ p_arrived[Len(p_arrived)] = 1
    /\ Len(p_tasks[1].out) >= 1
    /\ Len(p_tasks[NumWorkers].out) >= 1
    /\ HasRuptures(g_rows[1])
    /\ HasRuptures(g_rows[NumBins])
    /\ g_rows[1].log_like.mfd_dict[7] = (0 :> One)
    /\ g_rows[NumBins].log_like.mfd_dict[7] = (1 :> One)
    /\ p_mfds[1].key = CellKey(NumBins)

(***************************************************************************)
(* model_mfd_test called on bounded bin collections                        *)
(***************************************************************************)
MfdBins ==
    {SpacemagBin(NoRuptures, NoEarthquakes),
     SpacemagBin([NoRuptures EXCEPT ![7] = <<One>>], NoEarthquakes),
     SpacemagBin((6 :> <<<<1, 2>>>> @@ 7 :> <<One, <<1, 2>>>>),
                 (6 :> 1 @@ 7 :> 0)),
     SpacemagBin([NoRuptures EXCEPT ![6] = <<One>>], (6 :> 2 @@ 7 :> 1))}

MfdTables ==
    {[i \in 1 .. NumBins |->
        [key |-> CellKey(i), SpacemagBin |-> bins[i], log_like |-> Absent]] :
        bins \in [1 .. NumBins -> MfdBins]}

MfdConfigs ==
    [test : {"model_mfd"}, report : BOOLEAN,
     model_mfd : [investigation_time : {1, 2}, out_csv : BOOLEAN,
                  out_plot : BOOLEAN]]

InitMfd ==
    /\ g_cfg \in MfdConfigs
    /\ g_rows \in MfdTables
    /\ g_call = "none"
    /\ g_ret = NoRet
    /\ g_files = {}
    /\ StatsIdle
    /\ RunIdle
    /\ ParIdle
    /\ RngIdle

CallModelMfdTest ==
    /\ g_call = "none"
    /\ g_call' = "model_mfd_test"
    /\ LET out == model_mfd_test(g_cfg, g_rows)
       IN  /\ g_ret' = out.ret @@ [mfd_df |-> out.mfd_df]
           /\ g_files' = out.files
    /\ UNCHANGED <<g_cfg, g_rows, notGem>>

NextMfd == CallModelMfdTest

SpecMfd == InitMfd /\ [][NextMfd]_vars

CentersFrom(m) == {c \in Centers : c >= m}

RECURSIVE SumOver(_, _)
SumOver(f, S) ==
    IF S = {} THEN Zero
    ELSE LET x == CHOOSE x \in S : TRUE
         IN  Add(f[x], SumOver(f, S \ {x}))

\* the occurrence rates of all the ruptures of a center of the row i, and its
\* observed earthquakes per year
RuptureRate(ic) == SumRates(g_rows[ic[1]].SpacemagBin.ruptures[ic[2]])
ObservedRate(ic) ==
    Div(FromInt(g_rows[ic[1]].SpacemagBin.observed_earthquakes[ic[2]]),
        FromInt(g_cfg.model_mfd.investigation_time))

\* C9: model_mfd_test gives one global cumulative MFD pair: for every center
\* m, mod_mfd_cum[m] is the sum over all spatial bins of the occurrence rates
\* of the ruptures of the centers >= m, and obs_mfd_cum[m] is the sum over all
\* spatial bins of the earthquakes observed at the centers >= m, divided by
\* investigation_time.
C9_GlobalCumulativeMfd ==
    g_call = "model_mfd_test" =>
        \A m \in Centers :
            LET cells == (DOMAIN g_rows) \X CentersFrom(m)
            IN  /\ g_ret.mfd_df.mod_mfd_cum[m]
                    = SumOver([ic \in cells |-> RuptureRate(ic)], cells)
                /\ g_ret.mfd_df.obs_mfd_cum[m]
                    = SumOver([ic \in cells |-> ObservedRate(ic)], cells)

(***************************************************************************)
(* write_outputs called on bounded configurations                          *)
(***************************************************************************)
\* cfg["output"]["bin_gdf"]["file"]; <<>> stands for no "bin_gdf" key
OutFiles ==
    {<<>>, <<"bins", "csv">>, <<"bins", "geojson">>, <<"bins", "shp">>,
     <<"bins">>, <<"bins", "csv", "gz">>, <<"bins", "GeoJSON">>}

OutConfigs ==
    [test : {"write_outputs"}, config : [map_epsg : BOOLEAN],
     output : [plots : BOOLEAN, bin_gdf : OutFiles]]

OutTables ==
    {[i \in 1 .. NumBins |->
        [key |-> CellKey(i), SpacemagBin |-> bins[i], log_like |-> Stale]] :
        bins \in [1 .. NumBins -> LikeBins]}

InitOut ==
    /\ g_cfg \in OutConfigs
    /\ g_rows \in OutTables
    /\ g_call = "none"
    /\ g_ret = NoRet
    /\ g_files = {}
    /\ StatsIdle
    /\ RunIdle
    /\ ParIdle
    /\ RngIdle

CallWriteOutputs ==
    /\ g_call = "none"
    /\ g_call' = "write_outputs"
    /\ LET out == write_outputs(g_cfg, g_rows)
       IN  /\ g_rows' = out.rows
           /\ g_files' = out.files
           /\ g_ret' = out.ret
    /\ UNCHANGED <<g_cfg, notGem>>

NextOut == CallWriteOutputs

SpecOut == InitOut /\ [][NextOut]_vars

\* C7: with a 'bin_gdf' output file whose extension is neither 'csv' nor
\* 'geojson', write_outputs raises an exception that names the format, 'No
\* writer for <format> format', and writes no file.
C7_UnknownFormatRaises ==
    (/\ g_call = "write_outputs"
     /\ g_cfg.output.bin_gdf # <<>>
     /\ g_cfg.output.bin_gdf[Len(g_cfg.output.bin_gdf)]
            \notin {"csv", "geojson"})
        => /\ g_ret.kind = "Exception"
           /\ g_ret.msg = <<"No writer for",
                            g_cfg.output.bin_gdf[Len(g_cfg.output.bin_gdf)],
                            "format">>
           /\ g_files = {}

\* C17: write_outputs completes without raising for every configuration
\* whose bin_gdf output file has the extension csv or geojson, with or
\* without map_epsg in cfg["config"]; the table written has as many rows as
\* bin_gdf and each row holds its spatial-cell key in bin_index.
C17_WriteOutputsCompletes ==
    (/\ g_call = "write_outputs"
     /\ g_cfg.output.bin_gdf # <<>>
     /\ g_cfg.output.bin_gdf[Len(g_cfg.output.bin_gdf)] \in {"csv", "geojson"})
        => /\ g_ret = ReturnNone
           /\ \E f \in g_files :
                /\ g_files = {f}
                /\ f.file = g_cfg.output.bin_gdf
                /\ Len(f.rows) = NumBins
                /\ \A i \in 1 .. NumBins : f.rows[i].bin_index = CellKey(i)

====
